---- MODULE Spec2Model ----
(***************************************************************************)
(* Model of the BLT-NetGuardian zero-trust vulnerability reporter.         *)
(*                                                                         *)
(*   src/src/crypto_reporter.py   severity validation, JWK validation,     *)
(*                                org-id hashing, report construction and  *)
(*                                the org_keys registry kept in D1         *)
(*   src/secure_reporter.py       SecureVulnerabilityReporter              *)
(*                                                                         *)
(* The specifications sharing the module:                                  *)
(*   SpecRegistry    concurrent store_org_key / get_org_key /              *)
(*                   delete_org_key calls against one org_keys table       *)
(*   SpecJwk         validate_jwk_public_key applied to a bounded set of   *)
(*                   JSON values                                           *)
(*   SpecSeverity    validate_severity, create_report and                  *)
(*                   create_vulnerability_report applied to a bounded set  *)
(*                   of severity strings                                   *)
(*   SpecSubmission  build_submission calls                                *)
(*   SpecCorrelate   build_submission calls next to the registry calls of  *)
(*                   one caller                                            *)
(*   SpecPayload     prepare_payload of reports whose additional_data a    *)
(*                   caller fills key by key                               *)
(*   SpecEnvelope    encrypt_vulnerability_report and decrypt_report over  *)
(*                   one reports directory, with messages altered between  *)
(*   SpecWorker      the worker of src/src/worker.py: task-queue,          *)
(*                   result-ingestion and job-status requests entering     *)
(*                   through on_fetch, over one task queue, one jobs table *)
(*                   and one vulnerabilities table                         *)
(*   SpecIngest      the same worker with results that carry               *)
(*                   vulnerabilities                                       *)
(***************************************************************************)
EXTENDS Integers, Sequences, FiniteSets, TLC

VARIABLES
    db,          \* the org_keys table: a set of rows
    clock,       \* the reading datetime.utcnow() would give
    call,        \* per caller: the coroutine's position and local variables
    ret,         \* per caller: what its last finished call returned or raised
    registered,  \* history: org_id -> the material and parameters of the last upsert
                 \* the table ran for it, NoReg when none or when a delete ran since
    jwkIn,       \* SpecJwk: the value handed to validate_jwk_public_key
    jwkOut,      \* SpecJwk: what the call produced
    sevIn,       \* SpecSeverity: the arguments of the report constructor
    sevOut,      \* SpecSeverity: what the call produced
    subs,        \* build_submission calls made so far: arguments and result
    usedIds,     \* the values uuid.uuid4() has returned so far
    extra,       \* the additional_data dict a caller is filling: its items in
                 \* insertion order
    payloads,    \* prepare_payload calls made so far: report and text
    files,       \* the reports directory: file name -> file content
    sent,        \* encrypt_vulnerability_report calls made so far
    opened,      \* the last decrypt_report call: arguments, message read, outcome
    failures,    \* history: <<cause, exception class>> of the decrypt_report
                 \* calls that had one cause to fail
    task_queue,  \* the TASK_QUEUE namespace: task_id -> the task stored under it
    jobs,        \* the jobs table: job_id -> row
    vuln_db,     \* the vulnerabilities table: vuln_id -> row
    seen_hashes, \* seen_hashes of the TaskDeduplicator of the last worker built
    dispatched,  \* history: the tasks handed to a scanner, in order
    progress,    \* the update_job_progress calls between their read and their write
    ingested,    \* the last result-ingestion request: input and ids bound
    reply        \* the last response a handler returned

regVars == <<db, clock, call, ret, registered>>
jwkVars == <<jwkIn, jwkOut>>
sevVars == <<sevIn, sevOut>>
subVars == <<subs, usedIds>>
payVars == <<extra, payloads>>
gpgVars == <<files, sent, opened, failures>>
workVars == <<task_queue, jobs, vuln_db, seen_hashes, dispatched, progress, ingested, reply>>
vars == <<db, clock, call, ret, registered, jwkIn, jwkOut, sevIn, sevOut, subs, usedIds,
          extra, payloads, files, sent, opened, failures,
          task_queue, jobs, vuln_db, seen_hashes, dispatched, progress, ingested, reply>>

(***************************************************************************)
(* Bounds                                                                  *)
(***************************************************************************)
MaxClock == 2
MaxPad == 1
MaxSubs == 2
MaxPayloads == 2
MaxSent == 2
MaxSecond == 1
MaxDispatched == 3
MaxInflight == 2
MaxCompleted == 2

(***************************************************************************)
(* JSON values.  Every value is a record [tag, val] with val a string, so  *)
(* that values of different Python types stay comparable.                  *)
(***************************************************************************)
JStr(s) == [tag |-> "str", val |-> s]
JInt(s) == [tag |-> "int", val |-> s]
JNone == [tag |-> "none", val |-> ""]
JList(s) == [tag |-> "list", val |-> s]

\* Python truth value of a JSON value: None, "", 0 and [] are falsy.
Truthy(v) ==
    CASE v.tag = "none" -> FALSE
      [] v.tag = "str" -> v.val # ""
      [] v.tag = "int" -> v.val # "0"
      [] v.tag = "list" -> v.val # ""
      [] OTHER -> TRUE

EmptyDict == [k \in {} |-> JNone]

\* A Python object handed in as jwk: a dict (kind "dict", its items in
\* fields) or something else (a str, a list, None, an int).
PyDict(f) == [kind |-> "dict", fields |-> f]
PyOther(k) == [kind |-> k, fields |-> EmptyDict]

\* dict.get(key): the value, or None when the key is missing.
DictGet(d, key) == IF key \in DOMAIN d THEN d[key] ELSE JNone

PyTrue == PyOther("True")
PyFalse == PyOther("False")

\* obj.get(key): AttributeError unless obj is a dict.
AttributeError == [tag |-> "AttributeError", val |-> ""]
PyGet(obj, key) == IF obj.kind = "dict" THEN DictGet(obj.fields, key) ELSE AttributeError

\* validate_jwk_public_key without the check for "d".
validate_jwk_no_d_check(jwk) ==
    IF jwk.kind # "dict" THEN PyFalse
    ELSE IF PyGet(jwk, "kty") # JStr("RSA") THEN PyFalse
    ELSE IF ~Truthy(PyGet(jwk, "n")) \/ ~Truthy(PyGet(jwk, "e")) THEN PyFalse
    ELSE PyTrue

\* validate_jwk_public_key without the isinstance guard.
validate_jwk_unguarded(jwk) ==
    IF PyGet(jwk, "kty") = AttributeError THEN PyOther("AttributeError")
    ELSE IF PyGet(jwk, "kty") # JStr("RSA") THEN PyFalse
    ELSE IF ~Truthy(PyGet(jwk, "n")) \/ ~Truthy(PyGet(jwk, "e")) THEN PyFalse
    ELSE IF "d" \in DOMAIN jwk.fields THEN PyFalse
    ELSE PyTrue

validate_jwk_public_key(jwk) ==
    IF jwk.kind # "dict" THEN PyFalse
    ELSE IF PyGet(jwk, "kty") # JStr("RSA") THEN PyFalse
    ELSE IF ~Truthy(PyGet(jwk, "n")) \/ ~Truthy(PyGet(jwk, "e")) THEN PyFalse
    ELSE IF "d" \in DOMAIN jwk.fields THEN PyFalse
    ELSE PyTrue

(***************************************************************************)
(* hash_org_id: SHA-256 hex digests of the organization identifiers used.  *)
(***************************************************************************)
OrgIds == {"acme-corp", "org-1"}

hash_org_id_plain(org_id) == org_id

hash_org_id(org_id) ==
    CASE org_id = "acme-corp" -> "f13fa37ca5aed07e133e4d7b076941adff4182dc2d6c6627a67cc547ad74bf86"
      [] org_id = "org-1" -> "c24787a75cb363e4bc33871cff23a407c2dc0db631898c35b4604a833bfab5f8"
      [] org_id = "org-2" -> "dd65071bce642ca752fe93c12f1ac7895a312d8337e74ebfb3b02b0aa35f2099"
      [] org_id = "never-registered" -> "ef765dc40dd691dc34f6567937da5449f489b9e3531a7d9db1e06aee58352cda"

(***************************************************************************)
(* json.dumps / json.loads of a dict: the text is the sequence of          *)
(* key/value items; loading builds the dict back, a later item winning.    *)
(***************************************************************************)
KeyOrder == <<"kty", "n", "e", "d", "kid">>

RECURSIVE DumpItems(_, _)
DumpItems(d, i) ==
    IF i > Len(KeyOrder) THEN <<>>
    ELSE (IF KeyOrder[i] \in DOMAIN d THEN <<(<<KeyOrder[i], d[KeyOrder[i]]>>)>> ELSE <<>>)
         \o DumpItems(d, i + 1)

json_dumps(d) == DumpItems(d, 1)

json_loads(text) ==
    [k \in {text[i][1] : i \in 1..Len(text)} |->
        LET last == CHOOSE i \in 1..Len(text) :
                        /\ text[i][1] = k
                        /\ \A j \in 1..Len(text) : text[j][1] = k => j <= i
        IN text[last][2]]

\* datetime.utcnow().isoformat() + "Z"
utcnow_iso(now) == <<now, "Z">>

(***************************************************************************)
(* The org_keys table and the three statements run against it.  A row is   *)
(* [org_id_hash, jwk, registered_at]; D1 runs each statement atomically.   *)
(***************************************************************************)
Row(params) == [org_id_hash |-> params[1], jwk |-> params[2], registered_at |-> params[3]]

RowsFor(table, h) == {r \in table : r.org_id_hash = h}

\* INSERT without the ON CONFLICT clause taking effect: a second row.
UpsertAppend(table, params) == table \cup {Row(params)}

\* ON CONFLICT updating the jwk column only.
UpsertJwkOnly(table, params) ==
    IF RowsFor(table, params[1]) = {}
    THEN table \cup {Row(params)}
    ELSE {IF r.org_id_hash = params[1] THEN [r EXCEPT !.jwk = params[2]] ELSE r : r \in table}

\* INSERT INTO org_keys (org_id_hash, jwk, registered_at) VALUES (?, ?, ?)
\* ON CONFLICT(org_id_hash) DO UPDATE SET jwk=excluded.jwk,
\* registered_at=excluded.registered_at
Upsert(table, params) ==
    IF RowsFor(table, params[1]) = {}
    THEN table \cup {Row(params)}
    ELSE {IF r.org_id_hash = params[1]
          THEN [r EXCEPT !.jwk = params[2], !.registered_at = params[3]]
          ELSE r : r \in table}

NoRow == <<>>

\* SELECT with the WHERE clause lost: the first row of the table.
SelectAny(table, params) ==
    IF table = {} THEN NoRow ELSE <<(CHOOSE r \in table : TRUE).jwk>>

\* SELECT jwk FROM org_keys WHERE org_id_hash = ? ... .first()
SelectFirst(table, params) ==
    IF RowsFor(table, params[1]) = {} THEN NoRow
    ELSE <<(CHOOSE r \in RowsFor(table, params[1]) : TRUE).jwk>>

\* DELETE with the WHERE clause lost: every row goes.
DeleteAll(table, params) == {}

\* DELETE FROM org_keys WHERE org_id_hash = ?
Delete(table, params) == {r \in table : r.org_id_hash # params[1]}

(***************************************************************************)
(* Callers of the registry.  Each runs one coroutine at a time; a          *)
(* coroutine binds its statement, awaits D1 and then returns.              *)
(***************************************************************************)
Callers == {"c1", "c2"}

KeyA == PyDict([kty |-> JStr("RSA"), n |-> JStr("abc123"), e |-> JStr("AQAB")])
KeyB == PyDict([kty |-> JStr("RSA"), n |-> JStr("xyz789"), e |-> JStr("AQAB"),
                kid |-> JStr("acme-corp")])
KeyA_private == PyDict([kty |-> JStr("RSA"), n |-> JStr("abc123"), e |-> JStr("AQAB"),
                        d |-> JStr("secret")])
KeyEC == PyDict([kty |-> JStr("EC"), n |-> JStr("x"), e |-> JStr("y")])
RegMaterials == {KeyA, KeyB, KeyA_private, KeyEC}

NoKey == PyOther("none")
NoReg == [jwk |-> NoKey, params |-> <<>>]

IdleCall == [pc |-> "idle", org_id |-> "", jwk |-> NoKey, bound |-> <<>>]
NoRet == [op |-> "", org_id |-> "", kind |-> "none", val |-> NoKey]
Pending(op, org_id) == [op |-> op, org_id |-> org_id, kind |-> "pending", val |-> NoKey]
Returned(op, org_id, v) == [op |-> op, org_id |-> org_id, kind |-> "return", val |-> v]
Raised(op, org_id, exc) == [op |-> op, org_id |-> org_id, kind |-> exc, val |-> NoKey]

RegInit ==
    /\ db = {}
    /\ clock = 0
    /\ call = [p \in Callers |-> IdleCall]
    /\ ret = [p \in Callers |-> NoRet]
    /\ registered = [o \in OrgIds |-> NoReg]

\* store_org_key up to its await: validation, hashing, binding.
StoreBegin(p, org_id, jwk) ==
    /\ call[p].pc = "idle"
    /\ LET valid == validate_jwk_public_key(jwk)
       IN IF valid # PyTrue
          THEN /\ ret' = [ret EXCEPT ![p] = Raised("store", org_id, "ValueError")]
               /\ UNCHANGED call
          ELSE /\ call' = [call EXCEPT ![p] =
                     [pc |-> "store_await", org_id |-> org_id, jwk |-> jwk,
                      bound |-> <<hash_org_id(org_id), json_dumps(jwk.fields),
                                  utcnow_iso(clock)>>]]
               /\ ret' = [ret EXCEPT ![p] = Pending("store", org_id)]
    /\ UNCHANGED <<db, clock, registered>>

\* store_org_key from its await on: D1 runs the upsert, the call returns True.
StoreRun(p) ==
    /\ call[p].pc = "store_await"
    /\ db' = Upsert(db, call[p].bound)
    /\ registered' = [registered EXCEPT ![call[p].org_id] =
          [jwk |-> call[p].jwk, params |-> call[p].bound]]
    /\ ret' = [ret EXCEPT ![p] = Returned("store", call[p].org_id, PyTrue)]
    /\ call' = [call EXCEPT ![p] = IdleCall]
    /\ UNCHANGED clock

\* get_org_key up to its await.
GetBegin(p, org_id) ==
    /\ call[p].pc = "idle"
    /\ call' = [call EXCEPT ![p] =
          [pc |-> "get_await", org_id |-> org_id, jwk |-> NoKey,
           bound |-> <<hash_org_id(org_id)>>]]
    /\ ret' = [ret EXCEPT ![p] = Pending("get", org_id)]
    /\ UNCHANGED <<db, clock, registered>>

\* get_org_key from its await on: D1 runs the select, the row is decoded.
GetRun(p) ==
    /\ call[p].pc = "get_await"
    /\ LET row == SelectFirst(db, call[p].bound)
       IN ret' = [ret EXCEPT ![p] =
              IF row = NoRow
              THEN Raised("get", call[p].org_id, "KeyError")
              ELSE Returned("get", call[p].org_id, PyDict(json_loads(row[1])))]
    /\ call' = [call EXCEPT ![p] = IdleCall]
    /\ UNCHANGED <<db, clock, registered>>

\* delete_org_key up to its await.
DeleteBegin(p, org_id) ==
    /\ call[p].pc = "idle"
    /\ call' = [call EXCEPT ![p] =
          [pc |-> "delete_await", org_id |-> org_id, jwk |-> NoKey,
           bound |-> <<hash_org_id(org_id)>>]]
    /\ ret' = [ret EXCEPT ![p] = Pending("delete", org_id)]
    /\ UNCHANGED <<db, clock, registered>>

\* delete_org_key raising when there is no row to delete.
DeleteRunStrict(p) ==
    /\ call[p].pc = "delete_await"
    /\ db' = Delete(db, call[p].bound)
    /\ registered' = [registered EXCEPT ![call[p].org_id] = NoReg]
    /\ ret' = [ret EXCEPT ![p] =
          IF RowsFor(db, call[p].bound[1]) = {}
          THEN Raised("delete", call[p].org_id, "KeyError")
          ELSE Returned("delete", call[p].org_id, PyTrue)]
    /\ call' = [call EXCEPT ![p] = IdleCall]
    /\ UNCHANGED clock

\* delete_org_key from its await on: D1 runs the delete, the call returns True.
DeleteRun(p) ==
    /\ call[p].pc = "delete_await"
    /\ db' = Delete(db, call[p].bound)
    /\ registered' = [registered EXCEPT ![call[p].org_id] = NoReg]
    /\ ret' = [ret EXCEPT ![p] = Returned("delete", call[p].org_id, PyTrue)]
    /\ call' = [call EXCEPT ![p] = IdleCall]
    /\ UNCHANGED clock

\* Time passes between two readings of datetime.utcnow().
Tick ==
    /\ clock < MaxClock
    /\ clock' = clock + 1
    /\ UNCHANGED <<db, call, ret, registered>>

RegNext ==
    \/ \E p \in Callers, o \in OrgIds, m \in RegMaterials : StoreBegin(p, o, m)
    \/ \E p \in Callers : StoreRun(p)
    \/ \E p \in Callers, o \in OrgIds : GetBegin(p, o)
    \/ \E p \in Callers : GetRun(p)
    \/ \E p \in Callers, o \in OrgIds : DeleteBegin(p, o)
    \/ \E p \in Callers : DeleteRun(p)
    \/ Tick

(***************************************************************************)
(* Strings whose characters matter are sequences of one-character strings. *)
(***************************************************************************)
UpperCase == <<"A", "B", "C", "D", "E", "F", "G", "H", "I", "J", "K", "L", "M",
               "N", "O", "P", "Q", "R", "S", "T", "U", "V", "W", "X", "Y", "Z">>
LowerCase == <<"a", "b", "c", "d", "e", "f", "g", "h", "i", "j", "k", "l", "m",
               "n", "o", "p", "q", "r", "s", "t", "u", "v", "w", "x", "y", "z">>

LowerChar(c) ==
    IF \E i \in 1..Len(UpperCase) : UpperCase[i] = c
    THEN LowerCase[CHOOSE i \in 1..Len(UpperCase) : UpperCase[i] = c]
    ELSE c

UpperChar(c) ==
    IF \E i \in 1..Len(LowerCase) : LowerCase[i] = c
    THEN UpperCase[CHOOSE i \in 1..Len(LowerCase) : LowerCase[i] = c]
    ELSE c

\* str.lower()
str_lower(s) == [i \in 1..Len(s) |-> LowerChar(s[i])]

Whitespace == {" ", "\t", "\n"}

RECURSIVE lstrip(_)
lstrip(s) == IF s # <<>> /\ Head(s) \in Whitespace THEN lstrip(Tail(s)) ELSE s

RECURSIVE rstrip(_)
rstrip(s) ==
    IF s # <<>> /\ s[Len(s)] \in Whitespace THEN rstrip(SubSeq(s, 1, Len(s) - 1)) ELSE s

\* str.strip()
str_strip(s) == rstrip(lstrip(s))

\* str.replace(" ", ""): every whitespace character goes, inner ones too.
str_remove_whitespace(s) == SelectSeq(s, LAMBDA c : c \notin Whitespace)

VALID_SEVERITIES ==
    {<<"c", "r", "i", "t", "i", "c", "a", "l">>,
     <<"h", "i", "g", "h">>,
     <<"m", "e", "d", "i", "u", "m">>,
     <<"l", "o", "w">>,
     <<"i", "n", "f", "o">>}

SevReturn(v) == [kind |-> "return", val |-> v]
SevRaise(exc) == [kind |-> exc, val |-> <<>>]

\* validate_severity normalizing with replace(" ", "") instead of strip().
validate_severity_squeeze(severity) ==
    LET normalized == str_remove_whitespace(str_lower(severity))
    IN IF normalized \notin VALID_SEVERITIES
       THEN SevRaise("ValueError")
       ELSE SevReturn(normalized)

\* validate_severity returning its argument instead of the normalized value.
validate_severity_returns_input(severity) ==
    LET normalized == str_strip(str_lower(severity))
    IN IF normalized \notin VALID_SEVERITIES
       THEN SevRaise("ValueError")
       ELSE SevReturn(severity)

validate_severity(severity) ==
    LET normalized == str_strip(str_lower(severity))
    IN IF normalized \notin VALID_SEVERITIES
       THEN SevRaise("ValueError")
       ELSE SevReturn(normalized)

\* An optional argument: not given (the default applies; v is a placeholder
\* of the argument's type) or given as v.
NotGiven(placeholder) == [given |-> FALSE, v |-> placeholder]
Given(v) == [given |-> TRUE, v |-> v]

\* Python truth value of an optional argument whose default is None.
OptTruthy(opt, empty) == opt.given /\ opt.v # empty

\* "opt or empty"
OrEmpty(opt, empty) == IF OptTruthy(opt, empty) THEN opt.v ELSE empty

\* create_report leaving out the optional keys that were not given.
create_report_omitting_absent(args, t1, t2) ==
    LET sev == validate_severity(args.severity)
        base == [title |-> args.title,
                 description |-> args.description,
                 severity |-> sev.val,
                 affected_systems |-> args.affected_systems,
                 discovery_timestamp |-> utcnow_iso(t2)]
        with_rem == IF args.remediation.given
                    THEN base @@ [remediation |-> args.remediation.v] ELSE base
        with_cve == IF args.cve_ids.given
                    THEN with_rem @@ [cve_ids |-> args.cve_ids.v] ELSE with_rem
        data == IF args.additional_data.given
                THEN with_cve @@ [additional_data |-> args.additional_data.v] ELSE with_cve
    IN IF sev.kind # "return"
       THEN SevRaise(sev.kind)
       ELSE SevReturn([version |-> "2.0", report_type |-> "vulnerability",
                       timestamp |-> utcnow_iso(t1), data |-> data])

\* create_report: the dict literal is evaluated top down, so "timestamp" is
\* read at t1, severity is validated, "discovery_timestamp" is read at t2.
create_report(args, t1, t2) ==
    LET sev == validate_severity(args.severity)
    IN IF sev.kind # "return"
       THEN SevRaise(sev.kind)
       ELSE SevReturn(
              [version |-> "2.0",
               report_type |-> "vulnerability",
               timestamp |-> utcnow_iso(t1),
               data |-> [title |-> args.title,
                         description |-> args.description,
                         severity |-> sev.val,
                         affected_systems |-> args.affected_systems,
                         remediation |-> IF args.remediation.given
                                         THEN args.remediation.v ELSE "",
                         cve_ids |-> OrEmpty(args.cve_ids, <<>>),
                         additional_data |-> OrEmpty(args.additional_data, EmptyDict),
                         discovery_timestamp |-> utcnow_iso(t2)]])

\* SecureVulnerabilityReporter.create_vulnerability_report: severity is
\* lower-cased only; an optional key is set when its value is truthy.
create_vulnerability_report(args, t) ==
    LET base == [title |-> args.title,
                 description |-> args.description,
                 severity |-> str_lower(args.severity),
                 affected_systems |-> args.affected_systems,
                 discovery_timestamp |-> utcnow_iso(t)]
        with_cve == IF OptTruthy(args.cve_ids, <<>>)
                    THEN base @@ [cve_ids |-> args.cve_ids.v] ELSE base
        with_rem == IF OptTruthy(args.remediation, "")
                    THEN with_cve @@ [remediation |-> args.remediation.v] ELSE with_cve
    IN SevReturn(IF OptTruthy(args.additional_data, EmptyDict)
                 THEN with_rem @@ [additional_data |-> args.additional_data.v]
                 ELSE with_rem)

(***************************************************************************)
(* The severity strings tried: a word, its casing, whitespace around it.   *)
(***************************************************************************)
SeverityWords ==
    VALID_SEVERITIES \cup
    {<<"u", "n", "k", "n", "o", "w", "n">>,
     <<"l", "o", " ", "w">>,
     <<"h", "i", "g">>,
     <<>>}

Casings == {"lower", "upper", "title"}

Cased(w, casing) ==
    CASE casing = "lower" -> w
      [] casing = "upper" -> [i \in 1..Len(w) |-> UpperChar(w[i])]
      [] casing = "title" -> [i \in 1..Len(w) |-> IF i = 1 THEN UpperChar(w[i]) ELSE w[i]]

Pads == UNION {[1..n -> {" ", "\t"}] : n \in 0..MaxPad}

SeverityInputs ==
    {l \o Cased(w, c) \o r : w \in SeverityWords, c \in Casings, l \in Pads, r \in Pads}

ReportArgs ==
    [title : {"SQLi in login"},
     description : {"..."},
     severity : SeverityInputs,
     affected_systems : {<<"API">>},
     remediation : {NotGiven(""), Given(""), Given("Use parameterized queries")},
     cve_ids : {NotGiven(<<>>), Given(<<>>), Given(<<"CVE-2024-0001">>)},
     additional_data : {NotGiven(EmptyDict), Given(EmptyDict), Given([cvss |-> "9.8"])}]

NoArgs == <<>>
NoOutcome == [op |-> "none", kind |-> "pending", val |-> <<>>]
Outcome(op, r) == [op |-> op, kind |-> r.kind, val |-> r.val]

SevIdle == sevIn = NoArgs /\ sevOut = NoOutcome

SevInit == sevIn \in ReportArgs /\ sevOut = NoOutcome

ValidateSeverity ==
    /\ sevOut = NoOutcome
    /\ sevOut' = Outcome("validate_severity", validate_severity(sevIn.severity))
    /\ UNCHANGED sevIn

CreateReport ==
    /\ sevOut = NoOutcome
    /\ \E t1, t2 \in 0..MaxClock :
        /\ t1 <= t2
        /\ sevOut' = Outcome("create_report", create_report(sevIn, t1, t2))
    /\ UNCHANGED sevIn

CreateVulnerabilityReport ==
    /\ sevOut = NoOutcome
    /\ \E t \in 0..MaxClock :
        sevOut' = Outcome("create_vulnerability_report", create_vulnerability_report(sevIn, t))
    /\ UNCHANGED sevIn

SevNext == ValidateSeverity \/ CreateReport \/ CreateVulnerabilityReport

JwkIdle == jwkIn = NoKey /\ jwkOut = NoKey
SubIdle == subs = <<>> /\ usedIds = {}
PayIdle == extra = <<>> /\ payloads = <<>>
GpgIdle == files = {} /\ sent = <<>> /\ opened = <<>> /\ failures = {}
NoReply == [op |-> "none", status |-> 0]
NoIngestion == [task_id |-> <<>>, vulnerabilities |-> <<>>, vuln_ids |-> <<>>]
WorkIdle ==
    /\ task_queue = <<>> /\ jobs = <<>> /\ vuln_db = <<>> /\ seen_hashes = {}
    /\ dispatched = <<>> /\ progress = <<>> /\ ingested = NoIngestion /\ reply = NoReply

InitRegistry == RegInit /\ JwkIdle /\ SevIdle /\ SubIdle /\ PayIdle /\ GpgIdle /\ WorkIdle
NextRegistry == RegNext /\ UNCHANGED jwkVars /\ UNCHANGED sevVars /\ UNCHANGED subVars /\ UNCHANGED payVars /\ UNCHANGED gpgVars /\ UNCHANGED workVars
SpecRegistry == InitRegistry /\ [][NextRegistry]_vars

(***************************************************************************)
(* Registry properties, checked under SpecRegistry.                        *)
(***************************************************************************)
\* The step in which caller p's coroutine, awaiting at pc, finishes.
Finishes(p, pc) == call[p].pc = pc /\ call'[p] = IdleCall

RegisterFinished(p, o) == ret[p] = Returned("store", o, PyTrue)

\* C1: get_org_key(org) returns exactly the material of the most recent
\* store_org_key(org, m) the table ran that no delete_org_key(org) followed,
\* and raises KeyError, returning no key, when there is none.
C1_ResolveLatest ==
    [][\A p \in Callers :
        Finishes(p, "get_await") =>
            LET o == call[p].org_id
            IN ret'[p] = IF registered[o] = NoReg
                         THEN Raised("get", o, "KeyError")
                         ELSE Returned("get", o, registered[o].jwk)]_vars

\* A lookup returned KeyB for an organization whose key was registered twice.
C1_Witness ==
    \E p, q \in Callers, o \in OrgIds :
        /\ ret[p] = Returned("get", o, KeyB)
        /\ RegisterFinished(q, o)
        /\ registered[o].jwk = KeyB
        /\ registered[o].params[3] # utcnow_iso(0)

\* C2: the table never holds two rows with one org_id_hash, and an upsert
\* for an organization that has a row replaces jwk and registered_at of
\* that row together instead of adding a row.
C2_OneRowPerOrg ==
    /\ [](\A r1, r2 \in db : r1.org_id_hash = r2.org_id_hash => r1 = r2)
    /\ [][\A p \in Callers :
            (Finishes(p, "store_await") /\ RowsFor(db, call[p].bound[1]) # {}) =>
                /\ Cardinality(db') = Cardinality(db)
                /\ \E r \in db' : /\ r.org_id_hash = call[p].bound[1]
                                  /\ r.jwk = call[p].bound[2]
                                  /\ r.registered_at = call[p].bound[3]]_vars

\* Both callers registered a key for the same organization and one row is kept.
C2_Witness ==
    \E o \in OrgIds :
        /\ \A p \in Callers : RegisterFinished(p, o)
        /\ Cardinality(db) = 1
        /\ registered[o].params[3] = utcnow_iso(1)

\* C3: store_org_key with material that carries "d" (or is no RSA key)
\* raises ValueError without binding a statement and leaves the table as it
\* was; the same material without "d" is bound and then stored.
C3_InvalidRejectedBeforeStore ==
    [][\A p \in Callers, o \in OrgIds :
        /\ (StoreBegin(p, o, KeyA_private) \/ StoreBegin(p, o, KeyEC)) =>
              /\ ret'[p] = Raised("store", o, "ValueError")
              /\ call' = call
              /\ db' = db
        /\ StoreBegin(p, o, KeyA) =>
              /\ call'[p].pc = "store_await"
              /\ call'[p].bound[2] = json_dumps(KeyA.fields)
        /\ Finishes(p, "store_await") =>
              \E r \in db' : r.org_id_hash = call[p].bound[1] /\ r.jwk = call[p].bound[2]]_vars

\* A registration was refused while the organization's earlier key stays stored.
C3_Witness ==
    \E p \in Callers, o \in OrgIds :
        /\ ret[p] = Raised("store", o, "ValueError")
        /\ registered[o].jwk = KeyA
        /\ RowsFor(db, hash_org_id(o)) = {Row(registered[o].params)}

\* C4: every row has exactly the columns org_id_hash, jwk and
\* registered_at; org_id_hash is the digest of an organization identifier
\* and is no organization identifier itself, jwk is the serialized key
\* material and registered_at a timestamp.
C4_NoPlaintextOrgId ==
    \A r \in db :
        /\ DOMAIN r = {"org_id_hash", "jwk", "registered_at"}
        /\ r.org_id_hash \notin OrgIds
        /\ \E o \in OrgIds : r.org_id_hash = hash_org_id(o)
        /\ \E m \in RegMaterials : r.jwk = json_dumps(m.fields)
        /\ \E t \in 0..clock : r.registered_at = utcnow_iso(t)

\* Both organizations are registered, one with a key that names it in "kid".
C4_Witness ==
    /\ Cardinality(db) = 2
    /\ \E r \in db : r.jwk = json_dumps(KeyB.fields)

\* C5: whenever D1 runs an upsert the organization's row becomes exactly the
\* row bound by that one call, whatever other calls are in flight, and at
\* every moment the row of an organization is the whole row of the last
\* upsert run for it: jwk and registered_at of one call.
C5_LastWriterWins ==
    /\ [](\A o \in OrgIds :
            RowsFor(db, hash_org_id(o)) =
                IF registered[o] = NoReg THEN {} ELSE {Row(registered[o].params)})
    /\ [][\A p \in Callers :
            Finishes(p, "store_await") =>
                RowsFor(db', call[p].bound[1]) = {Row(call[p].bound)}]_vars

\* Two registrations of one organization, bound at different times with
\* different keys, are in flight while a row of the organization exists.
C5_Witness ==
    \E p, q \in Callers :
        /\ call[p].pc = "store_await" /\ call[q].pc = "store_await"
        /\ call[p].org_id = call[q].org_id
        /\ call[p].bound[2] # call[q].bound[2]
        /\ call[p].bound[3] # call[q].bound[3]
        /\ RowsFor(db, call[p].bound[1]) # {}

\* What a lookup for organization o finds in the table.
Lookup(table, o) == SelectFirst(table, <<hash_org_id(o)>>)

\* C6: a store or delete that D1 runs for one organization leaves the rows,
\* and what a lookup finds, of every other organization as they were.
C6_OtherOrgsUntouched ==
    [][\A p \in Callers :
        (Finishes(p, "store_await") \/ Finishes(p, "delete_await")) =>
            \A a \in OrgIds \ {call[p].org_id} :
                /\ RowsFor(db', hash_org_id(a)) = RowsFor(db, hash_org_id(a))
                /\ Lookup(db', a) = Lookup(db, a)
                /\ registered'[a] = registered[a]]_vars

\* A delete for one organization and a store for the other are in flight
\* together while the other organization has a row.
C6_Witness ==
    \E p, q \in Callers :
        /\ call[p].pc = "delete_await" /\ call[q].pc = "store_await"
        /\ call[p].org_id # call[q].org_id
        /\ RowsFor(db, call[q].bound[1]) # {}
        /\ RowsFor(db, call[p].bound[1]) # {}

\* C7: delete_org_key returns True also when the organization has no row,
\* and then leaves the table as it was; after it the organization has no
\* row and every other row is untouched; deleting twice equals deleting once.
C7_RevokeIdempotent ==
    /\ [](\A o \in OrgIds :
            LET params == <<hash_org_id(o)>>
            IN Delete(Delete(db, params), params) = Delete(db, params))
    /\ [][\A p \in Callers :
            Finishes(p, "delete_await") =>
                LET h == call[p].bound[1]
                IN /\ ret'[p] = Returned("delete", call[p].org_id, PyTrue)
                   /\ RowsFor(db', h) = {}
                   /\ db' \ RowsFor(db', h) = db \ RowsFor(db, h)
                   /\ (RowsFor(db, h) = {} => db' = db)]_vars

\* Both callers deleted the same organization's key, one after the other,
\* and the other organization's row is still there.
C7_Witness ==
    \E o \in OrgIds :
        /\ \A p \in Callers : ret[p] = Returned("delete", o, PyTrue)
        /\ RowsFor(db, hash_org_id(o)) = {}
        /\ Cardinality(db) = 1

(***************************************************************************)
(* validate_jwk_public_key on its own: one call on one value.              *)
(***************************************************************************)
JwkFieldNames == {"kty", "n", "e", "d"}
JwkFieldValues ==
    {JStr("RSA"), JStr("rsa"), JStr("EC"), JStr(""), JStr("abc123"), JStr("AQAB"),
     JStr("secret"), JNone, JInt("0"), JInt("65537"), JList("")}

JwkInputs ==
    {PyOther("str"), PyOther("list"), PyOther("none"), PyOther("int")}
    \cup {PyDict(f) : f \in UNION {[ks -> JwkFieldValues] : ks \in SUBSET JwkFieldNames}}

JwkInit == jwkIn \in JwkInputs /\ jwkOut = NoKey

ValidateJwk ==
    /\ jwkOut = NoKey
    /\ jwkOut' = validate_jwk_public_key(jwkIn)
    /\ UNCHANGED jwkIn

InitJwk == JwkInit /\ RegInit /\ SevIdle /\ SubIdle /\ PayIdle /\ GpgIdle /\ WorkIdle
NextJwk == ValidateJwk /\ UNCHANGED regVars /\ UNCHANGED sevVars /\ UNCHANGED subVars /\ UNCHANGED payVars /\ UNCHANGED gpgVars /\ UNCHANGED workVars
SpecJwk == InitJwk /\ [][NextJwk]_vars

\* A value json counts as empty: None, "" or [].
JEmpty(v) == v \in {JNone, JStr(""), JList("")}
FieldMissingOrEmpty(jwk, k) == k \notin DOMAIN jwk.fields \/ JEmpty(jwk.fields[k])

\* C8: validate_jwk_public_key returns True or False for every input and
\* raises nothing; False for a non-dict, for a missing or empty "n" or "e",
\* for a kty other than "RSA" and for every dict with a "d"; True only for
\* a dict with kty "RSA", non-empty "n" and "e" and no "d".
C8_ValidateTotal ==
    jwkOut # NoKey =>
        /\ jwkOut \in {PyTrue, PyFalse}
        /\ jwkIn.kind # "dict" => jwkOut = PyFalse
        /\ jwkIn.kind = "dict" =>
            /\ (FieldMissingOrEmpty(jwkIn, "n") \/ FieldMissingOrEmpty(jwkIn, "e"))
                    => jwkOut = PyFalse
            /\ ("kty" \notin DOMAIN jwkIn.fields \/ jwkIn.fields["kty"] # JStr("RSA"))
                    => jwkOut = PyFalse
            /\ "d" \in DOMAIN jwkIn.fields => jwkOut = PyFalse
        /\ jwkOut = PyTrue =>
            /\ jwkIn.kind = "dict"
            /\ {"kty", "n", "e"} \subseteq DOMAIN jwkIn.fields
            /\ "d" \notin DOMAIN jwkIn.fields
            /\ jwkIn.fields["kty"] = JStr("RSA")
            /\ ~JEmpty(jwkIn.fields["n"]) /\ ~JEmpty(jwkIn.fields["e"])

\* The key of the test suite with "d" added was refused.
C8_Witness == jwkIn = KeyA_private /\ jwkOut = PyFalse

InitSeverity == SevInit /\ RegInit /\ JwkIdle /\ SubIdle /\ PayIdle /\ GpgIdle /\ WorkIdle
NextSeverity == SevNext /\ UNCHANGED regVars /\ UNCHANGED jwkVars /\ UNCHANGED subVars /\ UNCHANGED payVars /\ UNCHANGED gpgVars /\ UNCHANGED workVars
SpecSeverity == InitSeverity /\ [][NextSeverity]_vars

\* The severity a constructed report carries in its data.
ReportSeverity(out) ==
    IF out.op = "create_report" THEN out.val.data.severity ELSE out.val.severity

Constructors == {"create_report", "create_vulnerability_report"}

\* C9: every report a constructor returns carries one of the five
\* lower-case severities, and the constructor fails when the severity given
\* does not normalize (lower-cased, trimmed) to one of them; for
\* create_report and create_vulnerability_report alike.
C9_SeverityCanonical ==
    sevOut.op \in Constructors =>
        /\ sevOut.kind = "return" => ReportSeverity(sevOut) \in VALID_SEVERITIES
        /\ str_strip(str_lower(sevIn.severity)) \notin VALID_SEVERITIES
              => sevOut.kind # "return"

\* Equality of two strings up to the case of their letters.
EqualIgnoringCase(a, b) ==
    Len(a) = Len(b) /\ \A i \in 1..Len(a) : LowerChar(a[i]) = LowerChar(b[i])

\* The string with the whitespace at its two ends removed.
RECURSIVE Trimmed(_)
Trimmed(s) ==
    IF s = <<>> THEN s
    ELSE IF s[1] \in Whitespace THEN Trimmed(SubSeq(s, 2, Len(s)))
    ELSE IF s[Len(s)] \in Whitespace THEN Trimmed(SubSeq(s, 1, Len(s) - 1))
    ELSE s

\* C10 as stated: validate_severity raises for every string that is none of
\* the five values when compared ignoring case.
C10_RejectsAllNonMembers ==
    (/\ sevOut.op = "validate_severity"
     /\ ~\E w \in VALID_SEVERITIES : EqualIgnoringCase(sevIn.severity, w))
        => sevOut.kind = "ValueError"

\* C10 as amended: validate_severity raises ValueError and returns no value
\* for every string that, with the whitespace around it removed, is none of
\* the five values when compared ignoring case.
C10_RejectsNonMembersAfterTrim ==
    (/\ sevOut.op = "validate_severity"
     /\ ~\E w \in VALID_SEVERITIES : EqualIgnoringCase(Trimmed(sevIn.severity), w))
        => sevOut.kind = "ValueError" /\ sevOut.val = <<>>

\* "Lo w" between two blanks was refused.
C10_Witness ==
    /\ sevOut.op = "validate_severity"
    /\ sevIn.severity = <<" ", "L", "o", " ", "w", " ">>
    /\ sevOut.kind = "ValueError"

\* C11: whatever validate_severity returns is lower-case, has no whitespace
\* at its ends, is one of the five values, and is returned unchanged when
\* validated again.
C11_ValidateIdempotent ==
    (sevOut.op = "validate_severity" /\ sevOut.kind = "return") =>
        LET r == sevOut.val
        IN /\ \A i \in 1..Len(r) : r[i] = LowerChar(r[i])
           /\ Trimmed(r) = r
           /\ r \in VALID_SEVERITIES
           /\ validate_severity(r) = SevReturn(r)

\* "HIGH" between a blank and a tab was accepted as "high".
C11_Witness ==
    /\ sevOut.op = "validate_severity"
    /\ sevIn.severity = <<" ", "H", "I", "G", "H", "\t">>
    /\ sevOut = Outcome("validate_severity", SevReturn(<<"h", "i", "g", "h">>))

(***************************************************************************)
(* Text.  A string the model only compares is a TLA+ string; chars gives   *)
(* the characters of the strings whose content matters.                    *)
(***************************************************************************)
chars(s) ==
    CASE s = "acme-corp" ->
        <<"a", "c", "m", "e", "-", "c", "o", "r", "p">>
      [] s = "org-1" ->
        <<"o", "r", "g", "-", "1">>
      [] s = "f13fa37ca5aed07e133e4d7b076941adff4182dc2d6c6627a67cc547ad74bf86" ->
        <<"f", "1", "3", "f", "a", "3", "7", "c", "a", "5", "a", "e", "d", "0", "7", "e",
          "1", "3", "3", "e", "4", "d", "7", "b", "0", "7", "6", "9", "4", "1", "a", "d",
          "f", "f", "4", "1", "8", "2", "d", "c", "2", "d", "6", "c", "6", "6", "2", "7",
          "a", "6", "7", "c", "c", "5", "4", "7", "a", "d", "7", "4", "b", "f", "8", "6">>
      [] s = "c24787a75cb363e4bc33871cff23a407c2dc0db631898c35b4604a833bfab5f8" ->
        <<"c", "2", "4", "7", "8", "7", "a", "7", "5", "c", "b", "3", "6", "3", "e", "4",
          "b", "c", "3", "3", "8", "7", "1", "c", "f", "f", "2", "3", "a", "4", "0", "7",
          "c", "2", "d", "c", "0", "d", "b", "6", "3", "1", "8", "9", "8", "c", "3", "5",
          "b", "4", "6", "0", "4", "a", "8", "3", "3", "b", "f", "a", "b", "5", "f", "8">>
      [] s = "f13fa37ca5aed07e" ->
        <<"f", "1", "3", "f", "a", "3", "7", "c", "a", "5", "a", "e", "d", "0", "7", "e">>
      [] s = "c24787a75cb363e4" ->
        <<"c", "2", "4", "7", "8", "7", "a", "7", "5", "c", "b", "3", "6", "3", "e", "4">>
      [] s = "fp123" ->
        <<"f", "p", "1", "2", "3">>
      [] s = "acme-corp-key" ->
        <<"a", "c", "m", "e", "-", "c", "o", "r", "p", "-", "k", "e", "y">>
      [] s = "3f2b8c1e-9a4d-4e6f-8b7a-1c2d3e4f5a6b" ->
        <<"3", "f", "2", "b", "8", "c", "1", "e", "-", "9", "a", "4", "d", "-", "4", "e",
          "6", "f", "-", "8", "b", "7", "a", "-", "1", "c", "2", "d", "3", "e", "4", "f",
          "5", "a", "6", "b">>
      [] s = "0a1b2c3d-4e5f-4a7b-9c8d-e0f1a2b3c4d5" ->
        <<"0", "a", "1", "b", "2", "c", "3", "d", "-", "4", "e", "5", "f", "-", "4", "a",
          "7", "b", "-", "9", "c", "8", "d", "-", "e", "0", "f", "1", "a", "2", "b", "3",
          "c", "4", "d", "5">>
      [] s = "7d9e0f1a-2b3c-4d5e-a6f7-b8c9d0e1f2a3" ->
        <<"7", "d", "9", "e", "0", "f", "1", "a", "-", "2", "b", "3", "c", "-", "4", "d",
          "5", "e", "-", "a", "6", "f", "7", "-", "b", "8", "c", "9", "d", "0", "e", "1",
          "f", "2", "a", "3">>
      [] s = "c4d5e6f7-a8b9-4c0d-b1e2-f3a4b5c6d7e8" ->
        <<"c", "4", "d", "5", "e", "6", "f", "7", "-", "a", "8", "b", "9", "-", "4", "c",
          "0", "d", "-", "b", "1", "e", "2", "-", "f", "3", "a", "4", "b", "5", "c", "6",
          "d", "7", "e", "8">>
      [] s = "-----BEGIN PGP MESSAGE-----hQEMA9xT-----END PGP MESSAGE-----" ->
        <<"-", "-", "-", "-", "-", "B", "E", "G", "I", "N", " ", "P", "G", "P", " ", "M",
          "E", "S", "S", "A", "G", "E", "-", "-", "-", "-", "-", "h", "Q", "E", "M", "A",
          "9", "x", "T", "-", "-", "-", "-", "-", "E", "N", "D", " ", "P", "G", "P", " ",
          "M", "E", "S", "S", "A", "G", "E", "-", "-", "-", "-", "-">>
      [] s = "eyJlayI6IlJTQS1PQUVQIn0=" ->
        <<"e", "y", "J", "l", "a", "y", "I", "6", "I", "l", "J", "T", "Q", "S", "1", "P",
          "Q", "U", "V", "Q", "I", "n", "0", "=">>
      [] s = "submission_id" ->
        <<"s", "u", "b", "m", "i", "s", "s", "i", "o", "n", "_", "i", "d">>
      [] s = "org_id_hash" ->
        <<"o", "r", "g", "_", "i", "d", "_", "h", "a", "s", "h">>
      [] s = "key_fingerprint" ->
        <<"k", "e", "y", "_", "f", "i", "n", "g", "e", "r", "p", "r", "i", "n", "t">>
      [] s = "encrypted_payload" ->
        <<"e", "n", "c", "r", "y", "p", "t", "e", "d", "_", "p", "a", "y", "l", "o", "a",
          "d">>
      [] s = "submitted_at" ->
        <<"s", "u", "b", "m", "i", "t", "t", "e", "d", "_", "a", "t">>
      [] s = "encryption_method" ->
        <<"e", "n", "c", "r", "y", "p", "t", "i", "o", "n", "_", "m", "e", "t", "h", "o",
          "d">>
      [] s = "AES-GCM-256 + RSA-OAEP wrapped key" ->
        <<"A", "E", "S", "-", "G", "C", "M", "-", "2", "5", "6", " ", "+", " ", "R", "S",
          "A", "-", "O", "A", "E", "P", " ", "w", "r", "a", "p", "p", "e", "d", " ", "k",
          "e", "y">>

Digits == <<"0", "1", "2", "3", "4", "5", "6", "7", "8", "9">>
HexDigits == {"0", "1", "2", "3", "4", "5", "6", "7", "8", "9", "a", "b", "c", "d", "e", "f"}

\* The characters of datetime.utcnow().isoformat() + "Z" read at clock value now.
iso_chars(ts) ==
    <<"2", "0", "2", "6", "-", "1", "1", "-", "0", "1", "T", "1", "2", ":", "0", "0", ":",
      "0", Digits[ts[1] + 1], ".", "2", "5", "0", "0", "0", "0">> \o <<ts[2]>>

\* text contains pat as a substring
Contains(text, pat) ==
    \E i \in 1..(Len(text) - Len(pat) + 1) : SubSeq(text, i, i + Len(pat) - 1) = pat

(***************************************************************************)
(* build_submission                                                        *)
(***************************************************************************)
\* str(uuid.uuid4()): 122 random bits.  The model takes uuid4 never to
\* return a value twice, as it takes SHA-256 to have no collisions.
UuidPool ==
    {"3f2b8c1e-9a4d-4e6f-8b7a-1c2d3e4f5a6b", "0a1b2c3d-4e5f-4a7b-9c8d-e0f1a2b3c4d5",
     "7d9e0f1a-2b3c-4d5e-a6f7-b8c9d0e1f2a3", "c4d5e6f7-a8b9-4c0d-b1e2-f3a4b5c6d7e8"}

\* The 16-character prefix of a digest.
Prefix16(h) ==
    CASE h = "f13fa37ca5aed07e133e4d7b076941adff4182dc2d6c6627a67cc547ad74bf86" -> "f13fa37ca5aed07e"
      [] h = "c24787a75cb363e4bc33871cff23a407c2dc0db631898c35b4604a833bfab5f8" -> "c24787a75cb363e4"

\* build_submission taking submission_id and org_id_hash from a shortened digest.
build_submission_short_digest(encrypted_data, org_id, key_fingerprint, id, now) ==
    [submission_id |-> Prefix16(hash_org_id(org_id)),
     org_id_hash |-> Prefix16(hash_org_id(org_id)),
     key_fingerprint |-> key_fingerprint,
     encrypted_payload |-> encrypted_data,
     submitted_at |-> utcnow_iso(now),
     encryption_method |-> "AES-GCM-256 + RSA-OAEP wrapped key"]

\* id is what uuid.uuid4() returns, now what datetime.utcnow() reads.
build_submission(encrypted_data, org_id, key_fingerprint, id, now) ==
    [submission_id |-> id,
     org_id_hash |-> hash_org_id(org_id),
     key_fingerprint |-> key_fingerprint,
     encrypted_payload |-> encrypted_data,
     submitted_at |-> utcnow_iso(now),
     encryption_method |-> "AES-GCM-256 + RSA-OAEP wrapped key"]

\* The keys of the dict literal, in the order it lists them.
SubmissionKeys ==
    <<"submission_id", "org_id_hash", "key_fingerprint", "encrypted_payload",
      "submitted_at", "encryption_method">>

\* The envelopes handed to build_submission: the ASCII-armored output of
\* encrypt_vulnerability_report (direct) and an AES-GCM + RSA-OAEP blob (hybrid).
EnvelopeDirect == [strategy |-> "direct", text |-> "-----BEGIN PGP MESSAGE-----hQEMA9xT-----END PGP MESSAGE-----"]
EnvelopeHybrid == [strategy |-> "hybrid", text |-> "eyJlayI6IlJTQS1PQUVQIn0="]
Envelopes == {EnvelopeDirect, EnvelopeHybrid}

KeyReferences == {"fp123", "acme-corp-key"}

BuildSubmission(org_id, envelope, key_fingerprint) ==
    /\ Len(subs) < MaxSubs
    /\ \E id \in UuidPool \ usedIds :
        /\ usedIds' = usedIds \cup {id}
        /\ subs' = Append(subs,
              [org_id |-> org_id, envelope |-> envelope, key_fingerprint |-> key_fingerprint,
               result |-> build_submission(envelope.text, org_id, key_fingerprint, id, clock)])
    /\ UNCHANGED <<db, clock, call, ret, registered>>

SubInit == SubIdle /\ RegInit

SubNext ==
    \/ \E o \in OrgIds, env \in Envelopes, k \in KeyReferences : BuildSubmission(o, env, k)
    \/ Tick /\ UNCHANGED subVars

InitSubmission == SubInit /\ JwkIdle /\ SevIdle /\ PayIdle /\ GpgIdle /\ WorkIdle
NextSubmission == SubNext /\ UNCHANGED jwkVars /\ UNCHANGED sevVars /\ UNCHANGED payVars /\ UNCHANGED gpgVars /\ UNCHANGED workVars
SpecSubmission == InitSubmission /\ [][NextSubmission]_vars

\* json.dumps of a submission: {"key": "value", ...} in the dict's order.
RECURSIVE SubmissionItems(_, _)
SubmissionItems(sub, i) ==
    IF i > Len(SubmissionKeys) THEN <<>>
    ELSE LET k == SubmissionKeys[i]
             v == IF k = "submitted_at" THEN iso_chars(sub[k]) ELSE chars(sub[k])
         IN (IF i > 1 THEN <<",", " ">> ELSE <<>>)
            \o <<"\"">> \o chars(k) \o <<"\"", ":", " ", "\"">> \o v \o <<"\"">>
            \o SubmissionItems(sub, i + 1)

SerializedSubmission(sub) == <<"{">> \o SubmissionItems(sub, 1) \o <<"}">>

(***************************************************************************)
(* Submission properties, checked under SpecSubmission.                    *)
(***************************************************************************)
\* C15: the serialized Submission never contains the raw organization
\* identifier it was built for, whatever envelope and key reference were
\* passed.
C15_NoOrgIdInSerialized ==
    \A i \in 1..Len(subs) :
        ~Contains(SerializedSubmission(subs[i].result), chars(subs[i].org_id))

\* C16: two calls with the same organization and the same envelope return
\* the same submission_id, two calls for one organization with different
\* envelopes return different ones.
C16_ContentDerivedId ==
    \A i, j \in 1..Len(subs) :
        subs[i].org_id = subs[j].org_id =>
            (subs[i].result.submission_id = subs[j].result.submission_id
                <=> subs[i].envelope = subs[j].envelope)

WellFormedUuid(c) ==
    /\ Len(c) = 36
    /\ \A i \in 1..36 :
        CASE i \in {9, 14, 19, 24} -> c[i] = "-"
          [] i = 15 -> c[i] = "4"
          [] i = 20 -> c[i] \in {"8", "9", "a", "b"}
          [] OTHER -> c[i] \in HexDigits

\* C17: every submission_id is a well-formed version-4 UUID and no two
\* calls, calls with identical arguments included, return the same one.
C17_UniqueUuid ==
    /\ \A i \in 1..Len(subs) : WellFormedUuid(chars(subs[i].result.submission_id))
    /\ \A i, j \in 1..Len(subs) :
        i # j => subs[i].result.submission_id # subs[j].result.submission_id

\* Two calls with identical arguments at the same clock reading.
C17_Witness ==
    /\ Len(subs) = 2
    /\ subs[1].org_id = subs[2].org_id
    /\ subs[1].envelope = subs[2].envelope
    /\ subs[1].key_fingerprint = subs[2].key_fingerprint
    /\ subs[1].result.submitted_at = subs[2].result.submitted_at

\* C20: the encryption_method of a Submission tells the strategy that made
\* its envelope: submissions with one tag carry envelopes of one strategy.
C20_MethodTagTellsStrategy ==
    \A i, j \in 1..Len(subs) :
        subs[i].result.encryption_method = subs[j].result.encryption_method
            => subs[i].envelope.strategy = subs[j].envelope.strategy

(***************************************************************************)
(* Submissions next to the registry: one caller registers, looks up and    *)
(* revokes keys while submissions are built.                               *)
(***************************************************************************)
CorrelateNext ==
    \/ \E o \in OrgIds : StoreBegin("c1", o, KeyA) /\ UNCHANGED subVars
    \/ StoreRun("c1") /\ UNCHANGED subVars
    \/ \E o \in OrgIds : GetBegin("c1", o) /\ UNCHANGED subVars
    \/ GetRun("c1") /\ UNCHANGED subVars
    \/ \E o \in OrgIds : DeleteBegin("c1", o) /\ UNCHANGED subVars
    \/ DeleteRun("c1") /\ UNCHANGED subVars
    \/ \E o \in OrgIds : BuildSubmission(o, EnvelopeHybrid, "fp123")

InitCorrelate == SubInit /\ JwkIdle /\ SevIdle /\ PayIdle /\ GpgIdle /\ WorkIdle
NextCorrelate == CorrelateNext /\ UNCHANGED jwkVars /\ UNCHANGED sevVars /\ UNCHANGED payVars /\ UNCHANGED gpgVars /\ UNCHANGED workVars
SpecCorrelate == InitCorrelate /\ [][NextCorrelate]_vars

\* C18: the org_id_hash of a Submission for X is the full 64-hex-character
\* digest that store_org_key, get_org_key and delete_org_key bind for X,
\* it is the org_id_hash of X's row, and of no other organization's row.
C18_SubmissionHashIsLookupKey ==
    \A i \in 1..Len(subs) :
        LET x == subs[i].org_id
            h == subs[i].result.org_id_hash
        IN /\ Len(chars(h)) = 64
           /\ \A k \in 1..64 : chars(h)[k] \in HexDigits
           /\ \A p \in Callers :
                call[p].pc # "idle" => (call[p].bound[1] = h <=> call[p].org_id = x)
           /\ \A o \in OrgIds :
                registered[o] # NoReg => (registered[o].params[1] = h <=> o = x)
           /\ \A r \in db :
                r.org_id_hash = h => registered[x] # NoReg /\ r = Row(registered[x].params)

\* A submission for an organization exists while both organizations have a
\* row and a lookup for that organization is bound.
C18_Witness ==
    \E i \in 1..Len(subs) :
        /\ Cardinality(db) = 2
        /\ call["c1"].pc = "get_await"
        /\ call["c1"].org_id = subs[i].org_id
        /\ \E r \in db : r.org_id_hash = subs[i].result.org_id_hash

(***************************************************************************)
(* Python values whose dicts remember insertion order.  Every value is a   *)
(* record [kind, s, items]: s is the text of a str, items the members of a *)
(* dict as <<key, value>> pairs in insertion order, or the elements of a   *)
(* list as <<"", value>> pairs.                                            *)
(***************************************************************************)
OStr(s) == [kind |-> "str", s |-> s, items |-> <<>>]
ONone == [kind |-> "none", s |-> "", items |-> <<>>]
OList(values) == [kind |-> "list", s |-> "", items |-> [i \in 1..Len(values) |-> <<"", values[i]>>]]
ODict(items) == [kind |-> "dict", s |-> "", items |-> items]

DictKeys(d) == {d.items[i][1] : i \in 1..Len(d.items)}
DictValue(d, k) == d.items[CHOOSE i \in 1..Len(d.items) : d.items[i][1] = k][2]

\* d[k] = v: a key the dict holds keeps its position, a new key goes last.
SetItem(items, k, v) ==
    IF \E i \in 1..Len(items) : items[i][1] = k
    THEN [i \in 1..Len(items) |-> IF items[i][1] = k THEN <<k, v>> ELSE items[i]]
    ELSE Append(items, <<k, v>>)

\* del d[k]
DelItem(items, k) == SelectSeq(items, LAMBDA it : it[1] # k)

\* a == b: dicts compare by keys and values, whatever the insertion order.
RECURSIVE PyEq(_, _)
PyEq(a, b) ==
    /\ a.kind = b.kind
    /\ CASE a.kind = "str" -> a.s = b.s
         [] a.kind = "none" -> TRUE
         [] a.kind = "list" ->
               /\ Len(a.items) = Len(b.items)
               /\ \A i \in 1..Len(a.items) : PyEq(a.items[i][2], b.items[i][2])
         [] a.kind = "dict" ->
               /\ DictKeys(a) = DictKeys(b)
               /\ \A k \in DictKeys(a) : PyEq(DictValue(a, k), DictValue(b, k))

(***************************************************************************)
(* json.dumps.  The text is a sequence of tokens: [t |-> "p"] punctuation  *)
(* with the exact characters written, [t |-> "s"] a string literal,        *)
(* [t |-> "n"] null.  A dict is written in the order it iterates, which is *)
(* its insertion order (sort_keys is False unless passed).                 *)
(***************************************************************************)
Punct(s) == [t |-> "p", s |-> s]
Literal(s) == [t |-> "s", s |-> s]
Null == [t |-> "n", s |-> "null"]

RECURSIVE dumps(_, _, _)
RECURSIVE DumpMembers(_, _, _, _, _)
DumpMembers(items, i, isdict, item_separator, key_separator) ==
    IF i > Len(items) THEN <<>>
    ELSE (IF i > 1 THEN <<Punct(item_separator)>> ELSE <<>>)
         \o (IF isdict THEN <<Literal(items[i][1]), Punct(key_separator)>> ELSE <<>>)
         \o dumps(items[i][2], item_separator, key_separator)
         \o DumpMembers(items, i + 1, isdict, item_separator, key_separator)

dumps(v, item_separator, key_separator) ==
    CASE v.kind = "str" -> <<Literal(v.s)>>
      [] v.kind = "none" -> <<Null>>
      [] v.kind = "list" ->
            <<Punct("[")>> \o DumpMembers(v.items, 1, FALSE, item_separator, key_separator)
                           \o <<Punct("]")>>
      [] v.kind = "dict" ->
            <<Punct("{")>> \o DumpMembers(v.items, 1, TRUE, item_separator, key_separator)
                           \o <<Punct("}")>>

\* json.dumps(report, separators=(',', ':'))
prepare_payload(report) == dumps(report, ",", ":")

(***************************************************************************)
(* create_report with dicts in insertion order: the dict literal of        *)
(* create_report gives the keys of the report and of data their order,     *)
(* additional_data is the caller's dict itself.                            *)
(***************************************************************************)
IsoText(now) ==
    <<"2026-11-01T12:00:00.250000Z", "2026-11-01T12:00:01.250000Z",
      "2026-11-01T12:00:02.250000Z", "2026-11-01T12:00:03.250000Z",
      "2026-11-01T12:00:04.250000Z", "2026-11-01T12:00:05.250000Z">>[now + 1]

create_report_dict(title, description, severity, affected_systems, additional_data, now) ==
    ODict(<<
        <<"version", OStr("2.0")>>,
        <<"report_type", OStr("vulnerability")>>,
        <<"timestamp", OStr(IsoText(now))>>,
        <<"data", ODict(<<
            <<"title", OStr(title)>>,
            <<"description", OStr(description)>>,
            <<"severity", OStr(severity)>>,
            <<"affected_systems", OList(affected_systems)>>,
            <<"remediation", OStr("")>>,
            <<"cve_ids", OList(<<>>)>>,
            <<"additional_data", ODict(additional_data)>>,
            <<"discovery_timestamp", OStr(IsoText(now))>>
        >>)>>
    >>)

ExtraKeys == {"cvss", "poc"}
ExtraValues == {OStr("9.8"), OStr("curl")}

\* The caller sets a key of the dict it will pass as additional_data.
SetExtra(k, v) ==
    /\ extra' = SetItem(extra, k, v)
    /\ UNCHANGED payloads

\* The caller deletes a key of that dict.
DelExtra(k) ==
    /\ k \in {extra[i][1] : i \in 1..Len(extra)}
    /\ extra' = DelItem(extra, k)
    /\ UNCHANGED payloads

\* prepare_payload(create_report(..., additional_data=extra))
PreparePayload ==
    /\ Len(payloads) < MaxPayloads
    /\ LET report == create_report_dict("SQLi", "login", "high", <<OStr("API")>>, extra, clock)
       IN payloads' = Append(payloads, [report |-> report, text |-> prepare_payload(report)])
    /\ UNCHANGED extra

PayInit == PayIdle
PayNext ==
    \/ \E k \in ExtraKeys, v \in ExtraValues : SetExtra(k, v)
    \/ \E k \in ExtraKeys : DelExtra(k)
    \/ PreparePayload

InitPayload == PayInit /\ RegInit /\ JwkIdle /\ SevIdle /\ SubIdle /\ GpgIdle /\ WorkIdle
NextPayload ==
    PayNext /\ UNCHANGED regVars /\ UNCHANGED jwkVars /\ UNCHANGED sevVars
            /\ UNCHANGED subVars /\ UNCHANGED gpgVars /\ UNCHANGED workVars
SpecPayload == InitPayload /\ [][NextPayload]_vars

\* C19: two reports holding the same keys and values, whatever the order
\* their keys were inserted in, get the same text from prepare_payload, and
\* the text has no whitespace between its tokens.
C19_PayloadDeterministic ==
    /\ \A i, j \in 1..Len(payloads) :
        PyEq(payloads[i].report, payloads[j].report) => payloads[i].text = payloads[j].text
    /\ \A i \in 1..Len(payloads) :
        \A n \in 1..Len(payloads[i].text) :
            payloads[i].text[n].t = "p"
                => payloads[i].text[n].s \in {"{", "}", "[", "]", ",", ":"}

(***************************************************************************)
(* json.dumps(report, indent=2) and json.loads.  With an indent the        *)
(* encoder writes "," between items and ": " after a key, and a newline    *)
(* with the indentation of the level before every item and before the      *)
(* closing bracket; an empty dict or list is written closed at once.       *)
(* [t |-> "w"] is whitespace, [t |-> "raw"] text that is no JSON token.    *)
(***************************************************************************)
Space(s) == [t |-> "w", s |-> s]
Raw(s) == [t |-> "raw", s |-> s]

Newline(level) == Space(<<"\n", "\n  ", "\n    ", "\n      ", "\n        ">>[level + 1])

RECURSIVE dumps_indent(_, _)
RECURSIVE DumpMembersIndent(_, _, _, _)
DumpMembersIndent(items, i, isdict, level) ==
    IF i > Len(items) THEN <<>>
    ELSE (IF i > 1 THEN <<Punct(",")>> ELSE <<>>)
         \o <<Newline(level)>>
         \o (IF isdict THEN <<Literal(items[i][1]), Punct(":"), Space(" ")>> ELSE <<>>)
         \o dumps_indent(items[i][2], level)
         \o DumpMembersIndent(items, i + 1, isdict, level)

dumps_indent(v, level) ==
    CASE v.kind = "str" -> <<Literal(v.s)>>
      [] v.kind = "none" -> <<Null>>
      [] v.kind = "list" ->
            IF v.items = <<>> THEN <<Punct("["), Punct("]")>>
            ELSE <<Punct("[")>> \o DumpMembersIndent(v.items, 1, FALSE, level + 1)
                                \o <<Newline(level), Punct("]")>>
      [] v.kind = "dict" ->
            IF v.items = <<>> THEN <<Punct("{"), Punct("}")>>
            ELSE <<Punct("{")>> \o DumpMembersIndent(v.items, 1, TRUE, level + 1)
                                \o <<Newline(level), Punct("}")>>

\* The decoder: [ok, v, next] is the value read from position i and the
\* position after it; ok is FALSE where the text is no JSON.
ParseFail == [ok |-> FALSE, v |-> ONone, next |-> 0]
Parsed(v, next) == [ok |-> TRUE, v |-> v, next |-> next]

RECURSIVE ParseValue(_, _)
RECURSIVE ParseMembers(_, _, _)
RECURSIVE ParseElements(_, _, _)
ParseMembers(toks, i, acc) ==
    IF i + 1 > Len(toks) \/ toks[i].t # "s" \/ toks[i + 1] # Punct(":") THEN ParseFail
    ELSE LET val == ParseValue(toks, i + 2)
         IN IF ~val.ok \/ val.next > Len(toks) THEN ParseFail
            ELSE LET acc2 == SetItem(acc, toks[i].s, val.v)
                 IN IF toks[val.next] = Punct("}") THEN Parsed(ODict(acc2), val.next + 1)
                    ELSE IF toks[val.next] = Punct(",")
                    THEN ParseMembers(toks, val.next + 1, acc2)
                    ELSE ParseFail

ParseElements(toks, i, acc) ==
    LET val == ParseValue(toks, i)
    IN IF ~val.ok \/ val.next > Len(toks) THEN ParseFail
       ELSE LET acc2 == Append(acc, val.v)
            IN IF toks[val.next] = Punct("]") THEN Parsed(OList(acc2), val.next + 1)
               ELSE IF toks[val.next] = Punct(",")
               THEN ParseElements(toks, val.next + 1, acc2)
               ELSE ParseFail

ParseValue(toks, i) ==
    IF i > Len(toks) THEN ParseFail
    ELSE CASE toks[i].t = "s" -> Parsed(OStr(toks[i].s), i + 1)
           [] toks[i].t = "n" -> Parsed(ONone, i + 1)
           [] toks[i] = Punct("{") ->
                 IF i + 1 <= Len(toks) /\ toks[i + 1] = Punct("}")
                 THEN Parsed(ODict(<<>>), i + 2)
                 ELSE ParseMembers(toks, i + 1, <<>>)
           [] toks[i] = Punct("[") ->
                 IF i + 1 <= Len(toks) /\ toks[i + 1] = Punct("]")
                 THEN Parsed(OList(<<>>), i + 2)
                 ELSE ParseElements(toks, i + 1, <<>>)
           [] OTHER -> ParseFail

\* json.loads(text): the value, or ok = FALSE where json.JSONDecodeError is raised.
loads(text) ==
    LET toks == SelectSeq(text, LAMBDA tok : tok.t # "w")
        r == ParseValue(toks, 1)
    IN IF r.ok /\ r.next = Len(toks) + 1 THEN r ELSE ParseFail

(***************************************************************************)
(* GnuPG as SecureVulnerabilityReporter and DecryptionHelper use it.  An   *)
(* OpenPGP message is [to, plain, damaged]: the key it is encrypted to,    *)
(* the text inside, and the parts of it altered since gpg wrote it.  gpg   *)
(* is taken as ideal: the text is recovered only with the secret key and   *)
(* its passphrase, and every alteration fails the integrity check.         *)
(***************************************************************************)
CompanyKey == "8F3A1C2D9B7E4F60A1B2C3D4E5F60718293A4B5C"
OtherKey == "1D2E3F405162738495A6B7C8D9E0F1A2B3C4D5E6"
UnknownKey == "0000000000000000000000000000000000000000"

\* The public keys imported into the reporter's keyring.
PublicKeyring == {CompanyKey, OtherKey}
\* The secret key in the DecryptionHelper's keyring and its passphrase.
SecretKeyring == {CompanyKey}
CompanyPassphrase == "test_passphrase_12345"
Passphrases == {CompanyPassphrase, "wrong"}

NoMessage == [to |-> "", plain |-> <<>>, damaged |-> {}]
Message(to, plain) == [to |-> to, plain |-> plain, damaged |-> {}]
MessageParts == {"ciphertext", "tag"}

\* gpg.encrypt(data, recipient, always_trust=True, armor=True)
gpg_encrypt(data, recipient) ==
    IF recipient \in PublicKeyring
    THEN [ok |-> TRUE, data |-> Message(recipient, data)]
    ELSE [ok |-> FALSE, data |-> NoMessage]

\* gpg.decrypt(message, passphrase=passphrase).  ok needs the secret key,
\* its passphrase and an intact message; when only the integrity check
\* fails, data holds what was deciphered before the check.
gpg_decrypt(message, passphrase) ==
    LET unlocked == message.to \in SecretKeyring /\ passphrase = CompanyPassphrase
    IN [ok |-> unlocked /\ message.damaged = {},
        data |-> IF ~unlocked THEN <<>>
                 ELSE IF "ciphertext" \in message.damaged THEN <<Raw("garbled")>>
                 ELSE message.plain]

(***************************************************************************)
(* SecureVulnerabilityReporter and DecryptionHelper                        *)
(***************************************************************************)
\* create_vulnerability_report with its dict in insertion order; created is
\* the clock reading at creation.
create_vulnerability_report_dict(title, description, severity, affected_systems, cve_ids, remediation, additional_data, created) ==
    ODict(<<
        <<"title", OStr(title)>>,
        <<"description", OStr(description)>>,
        <<"severity", OStr(severity)>>,
        <<"affected_systems", OList(affected_systems)>>,
        <<"discovery_timestamp", OStr(IsoText(created))>>
      >>
      \o (IF cve_ids # <<>> THEN <<(<<"cve_ids", OList(cve_ids)>>)>> ELSE <<>>)
      \o (IF remediation # "" THEN <<(<<"remediation", OStr(remediation)>>)>> ELSE <<>>)
      \o (IF additional_data # <<>>
          THEN <<(<<"additional_data", ODict(additional_data)>>)>> ELSE <<>>))

ReportPlain ==
    create_vulnerability_report_dict("Decryption Test", "Testing decryption", "low",
                                     <<OStr("System X")>>, <<>>, "", <<>>, 0)
ReportFull ==
    create_vulnerability_report_dict("SQLi", "login form", "high",
                                     <<OStr("API"), OStr("Web")>>, <<OStr("CVE-2024-0001")>>,
                                     "Use parameterized queries",
                                     <<(<<"test_field", OStr("test_value")>>),
                                       (<<"cvss", OStr("9.8")>>)>>, 0)
Reports == {ReportPlain, ReportFull}
Recipients == {CompanyKey, OtherKey, UnknownKey}

\* os.path.join("reports", "vulnerability_report_" + strftime("%Y%m%d_%H%M%S") + ".pgp")
ReportPath(now) == <<"reports/vulnerability_report_", now, ".pgp">>
\* A PGP file that did not come from the reporter, and a file that is not there.
NotesPath == <<"reports/notes", 0, ".pgp">>
MissingPath == <<"reports/vulnerability_report_", 0, ".gpg">>

FileNames == {f.name : f \in files}
ReadFile(name) == (CHOOSE f \in files : f.name = name).content
\* open(path, 'w').write(content): the file is created or replaced.
WriteFile(name, content) ==
    {f \in files : f.name # name} \cup {[name |-> name, content |-> content]}

Returns(v) == [kind |-> "return", exc |-> "", val |-> v]
Raises(exc) == [kind |-> "raise", exc |-> exc, val |-> ONone]

\* The report encrypt_vulnerability_report wraps the data in.
WrapReport(vulnerability_data, now) ==
    ODict(<<
        <<"timestamp", OStr(IsoText(now))>>,
        <<"report_type", OStr("vulnerability")>>,
        <<"version", OStr("1.0")>>,
        <<"data", vulnerability_data>>
    >>)

\* encrypt_vulnerability_report without the test of encrypted_data.ok: the
\* file is written and its path returned whatever gpg reported.
EncryptReportUnchecked(vulnerability_data, recipient_fingerprint) ==
    /\ Len(sent) < MaxSent
    /\ LET report == WrapReport(vulnerability_data, clock)
           encrypted_data == gpg_encrypt(dumps_indent(report, 0), recipient_fingerprint)
           filepath == ReportPath(clock)
       IN /\ files' = WriteFile(filepath, encrypted_data.data)
          /\ sent' = Append(sent, [data |-> vulnerability_data,
                                   recipient |-> recipient_fingerprint,
                                   report |-> report, out |-> "return",
                                   path |-> filepath, message |-> encrypted_data.data])
    /\ UNCHANGED <<opened, failures, db, clock, call, ret, registered>>

\* encrypt_vulnerability_report: both clock readings of the call fall in
\* the same second.
EncryptReport(vulnerability_data, recipient_fingerprint) ==
    /\ Len(sent) < MaxSent
    /\ LET report == WrapReport(vulnerability_data, clock)
           report_json == dumps_indent(report, 0)
           encrypted_data == gpg_encrypt(report_json, recipient_fingerprint)
           filepath == ReportPath(clock)
           this == [data |-> vulnerability_data, recipient |-> recipient_fingerprint,
                    report |-> report]
       IN IF ~encrypted_data.ok
          THEN /\ sent' = Append(sent, this @@ [out |-> "ValueError", path |-> <<>>,
                                                 message |-> NoMessage])
               /\ UNCHANGED files
          ELSE /\ files' = WriteFile(filepath, encrypted_data.data)
               /\ sent' = Append(sent, this @@ [out |-> "return", path |-> filepath,
                                                 message |-> encrypted_data.data])
    /\ UNCHANGED <<opened, failures, db, clock, call, ret, registered>>

\* DecryptionHelper.decrypt_report returning the data of the report only.
decrypt_report_data_only(encrypted_file_path, passphrase) ==
    IF encrypted_file_path \notin FileNames THEN Raises("FileNotFoundError")
    ELSE LET decrypted_data == gpg_decrypt(ReadFile(encrypted_file_path), passphrase)
             report == loads(decrypted_data.data)
         IN IF ~decrypted_data.ok THEN Raises("ValueError")
            ELSE IF ~report.ok THEN Raises("JSONDecodeError")
            ELSE Returns(DictValue(report.v, "data"))

\* DecryptionHelper.decrypt_report without the test of decrypted_data.ok.
decrypt_report_unchecked(encrypted_file_path, passphrase) ==
    IF encrypted_file_path \notin FileNames THEN Raises("FileNotFoundError")
    ELSE LET decrypted_data == gpg_decrypt(ReadFile(encrypted_file_path), passphrase)
             report == loads(decrypted_data.data)
         IN IF ~report.ok THEN Raises("JSONDecodeError")
            ELSE Returns(report.v)

\* DecryptionHelper.decrypt_report.  ValueError is the one raised with
\* "Decryption failed: ..."; json.loads raises json.JSONDecodeError.
decrypt_report(encrypted_file_path, passphrase) ==
    IF encrypted_file_path \notin FileNames THEN Raises("FileNotFoundError")
    ELSE LET decrypted_data == gpg_decrypt(ReadFile(encrypted_file_path), passphrase)
             report == loads(decrypted_data.data)
         IN IF ~decrypted_data.ok THEN Raises("ValueError")
            ELSE IF ~report.ok THEN Raises("JSONDecodeError")
            ELSE Returns(report.v)

\* The call holds the secret key the message is encrypted to and gave its
\* passphrase.
HasKeyAndPassphrase(o) ==
    o.message.to \in SecretKeyring /\ o.passphrase = CompanyPassphrase

\* What makes a decrypt_report call fail ("Incorrect passphrase", "Wrong
\* private key", "Corrupted encrypted file", text that is no JSON), for a
\* call with one cause only.
WrongKeyOrPassphrase(o) == o.found /\ ~HasKeyAndPassphrase(o)
Tampered(o) == o.found /\ o.message.damaged # {}
Malformed(o) == o.found /\ ~loads(o.message.plain).ok
FailureCause(o) ==
    CASE WrongKeyOrPassphrase(o) /\ ~Tampered(o) /\ ~Malformed(o) -> "wrong key or passphrase"
      [] ~WrongKeyOrPassphrase(o) /\ Tampered(o) /\ ~Malformed(o) -> "tampered"
      [] ~WrongKeyOrPassphrase(o) /\ ~Tampered(o) /\ Malformed(o) -> "malformed"
      [] OTHER -> "none or several"

\* The record of a call: arguments, the message read, the outcome.
Opening(encrypted_file_path, passphrase) ==
          [path |-> encrypted_file_path,
           passphrase |-> passphrase,
           message |-> IF encrypted_file_path \in FileNames
                       THEN ReadFile(encrypted_file_path) ELSE NoMessage,
           found |-> encrypted_file_path \in FileNames,
           out |-> decrypt_report(encrypted_file_path, passphrase)]

DecryptReport(encrypted_file_path, passphrase) ==
    LET o == Opening(encrypted_file_path, passphrase)
    IN /\ opened' = <<o>>
       /\ failures' = failures \cup
             (IF FailureCause(o) = "none or several" THEN {}
              ELSE {<<FailureCause(o), o.out.kind, o.out.exc>>})
       /\ UNCHANGED <<files, sent, db, clock, call, ret, registered>>

\* One part of a stored report message is altered.
Tamper(name, part) ==
    /\ name \in FileNames \ {NotesPath}
    /\ ReadFile(name).damaged = {}
    /\ files' = WriteFile(name, [ReadFile(name) EXCEPT !.damaged = {part}])
    /\ UNCHANGED <<sent, opened, failures, db, clock, call, ret, registered>>

\* A file encrypted to the company key with gpg itself, holding text that
\* is no report, is put into the directory.
StoreNotes ==
    /\ NotesPath \notin FileNames
    /\ files' = WriteFile(NotesPath, Message(CompanyKey, <<Raw("meeting notes")>>))
    /\ UNCHANGED <<sent, opened, failures, db, clock, call, ret, registered>>

\* The clock reaches the next second.
NextSecond ==
    /\ clock < MaxSecond
    /\ clock' = clock + 1
    /\ UNCHANGED <<db, call, ret, registered>>
    /\ UNCHANGED gpgVars

GpgInit == GpgIdle /\ RegInit
GpgNext ==
    \/ \E r \in Reports, k \in Recipients : EncryptReport(r, k)
    \/ \E path \in FileNames \cup {MissingPath}, pw \in Passphrases : DecryptReport(path, pw)
    \/ \E path \in FileNames, part \in MessageParts : Tamper(path, part)
    \/ StoreNotes
    \/ NextSecond

InitEnvelope == GpgInit /\ JwkIdle /\ SevIdle /\ SubIdle /\ PayIdle /\ WorkIdle
NextEnvelope ==
    GpgNext /\ UNCHANGED jwkVars /\ UNCHANGED sevVars /\ UNCHANGED subVars
            /\ UNCHANGED payVars /\ UNCHANGED workVars
SpecEnvelope == InitEnvelope /\ [][NextEnvelope]_vars

(***************************************************************************)
(* Envelope properties, checked under SpecEnvelope.                        *)
(***************************************************************************)
\* The message a decrypt_report call read is the one this
\* encrypt_vulnerability_report call wrote, unaltered.
ReadsMessageOf(o, i) ==
    /\ sent[i].out = "return"
    /\ o.found
    /\ o.path = sent[i].path
    /\ o.message = sent[i].message

\* C12: decrypting, with the private key and passphrase of the recipient,
\* the message encrypt wrote for data R returns a report whose data equals R
\* field for field, with report_type "vulnerability", version "1.0" and the
\* timestamp stamped at encryption, and no other key.
C12_RoundTrip ==
    \A n \in 1..Len(opened) : \A i \in 1..Len(sent) : LET o == opened[n] IN
        (ReadsMessageOf(o, i) /\ HasKeyAndPassphrase(o)) =>
            /\ o.out.kind = "return"
            /\ DictKeys(o.out.val) = {"timestamp", "report_type", "version", "data"}
            /\ PyEq(DictValue(o.out.val, "data"), sent[i].data)
            /\ DictValue(o.out.val, "data") = sent[i].data
            /\ DictValue(o.out.val, "report_type") = OStr("vulnerability")
            /\ DictValue(o.out.val, "version") = OStr("1.0")
            /\ DictValue(o.out.val, "timestamp") = DictValue(sent[i].report, "timestamp")

\* The round trip of the report that has every optional field.
C12_Witness ==
    \E n \in 1..Len(opened) : \E i \in 1..Len(sent) : LET o == opened[n] IN
        /\ ReadsMessageOf(o, i)
        /\ HasKeyAndPassphrase(o)
        /\ sent[i].data = ReportFull
        /\ o.out.kind = "return"

\* "except handler:" catches exc: json.JSONDecodeError is a subclass of
\* ValueError.
Catches(handler, exc) ==
    \/ handler = exc
    \/ handler = "ValueError" /\ exc = "JSONDecodeError"

\* C13: two decrypt_report calls that fail for different causes (wrong key
\* or passphrase, tampered message, recovered text that is no report) raise
\* exceptions that no one handler for a class decrypt_report raises catches
\* both.
C13_FailureCausesDistinguished ==
    \A f1, f2 \in failures :
        f1[1] # f2[1] =>
            /\ f1[2] = "raise"
            /\ f2[2] = "raise"
            /\ \A handler \in {"ValueError", "JSONDecodeError"} :
                ~(Catches(handler, f1[3]) /\ Catches(handler, f2[3]))

\* C14: decrypt_report of a message encrypt wrote, one part of which was
\* altered since, with the right key and passphrase raises the ValueError
\* of a failed decryption and returns no report.
C14_TamperDetected ==
    \A n \in 1..Len(opened) : LET o == opened[n] IN
        (/\ \E i \in 1..Len(sent) :
                /\ sent[i].out = "return"
                /\ o.path = sent[i].path
                /\ o.message.plain = sent[i].message.plain
         /\ HasKeyAndPassphrase(o)
         /\ o.message.damaged # {}) =>
            o.out = Raises("ValueError")

\* The tag of a message was altered: gpg deciphers the text of the report
\* and the integrity check fails.
C14_Witness ==
    \E n \in 1..Len(opened) : LET o == opened[n] IN
        /\ HasKeyAndPassphrase(o)
        /\ o.message.damaged = {"tag"}
        /\ o.message.plain = dumps_indent(WrapReport(ReportFull, 0), 0)
        /\ gpg_decrypt(o.message, o.passphrase).data = o.message.plain
        /\ o.out.kind = "raise"

(***************************************************************************)
(* The keys of a Submission and the fields of a report.                    *)
(***************************************************************************)
\* The fields an envelope of a strategy has.
EnvelopeFields(strategy) ==
    IF strategy = "direct" THEN {"ciphertext"}
    ELSE {"encrypted_symmetric_key", "nonce", "ciphertext", "auth_tag"}

\* C21: a Submission has exactly the keys submission_id, org_hash,
\* key_reference, the envelope fields of its strategy, submitted_at and
\* encryption_method.
C21_SubmissionKeysAsNamed ==
    \A i \in 1..Len(subs) :
        DOMAIN subs[i].result =
            {"submission_id", "org_hash", "key_reference", "submitted_at", "encryption_method"}
                \cup EnvelopeFields(subs[i].envelope.strategy)

C23_FailedEncryptionWritesNothing ==
    [][(Len(sent') = Len(sent) + 1
            /\ sent'[Len(sent')].recipient \notin PublicKeyring) =>
        /\ sent'[Len(sent')].out = "ValueError"
        /\ sent'[Len(sent')].path = <<>>
        /\ sent'[Len(sent')].message = NoMessage
        /\ files' = files]_vars

\* A failed call after a call that wrote a file.
C23_Witness ==
    /\ Len(sent) = 2
    /\ sent[1].out = "return"
    /\ sent[2].recipient = UnknownKey
    /\ sent[2].out = "ValueError"
    /\ FileNames = {sent[1].path}

\* C29: the paths returned by the successful encrypt_vulnerability_report
\* calls are pairwise distinct, two calls in one clock second included, so
\* no call writes over the file of an earlier call.
C29_OwnFilePerCall ==
    \A i, j \in 1..Len(sent) :
        (i # j /\ sent[i].out = "return" /\ sent[j].out = "return")
            => sent[i].path # sent[j].path


(***************************************************************************)
(* The worker (src/src/worker.py).                                         *)
(*                                                                         *)
(* A request enters through on_fetch, which builds a BLTWorker, and with   *)
(* it a TaskDeduplicator, for that request alone.  The three stores are    *)
(* bindings of the environment and outlive the requests.  generate_id is   *)
(* the first 16 hex digits of a SHA-256 digest; it is taken to be          *)
(* injective on the texts hashed here, which are kept as the tuples of     *)
(* their parts.  Requests overlap at the await between the read and the    *)
(* write of update_job_progress.  datetime.utcnow() is the reading of      *)
(* `clock`; two requests can take the same reading.                        *)
(***************************************************************************)
Targets == {"t1"}
TaskTypes == {"crawler", "static_analysis"}
TaskTypeLists ==
    {<<>>} \cup {<<a>> : a \in TaskTypes} \cup {<<a, b>> : a \in TaskTypes, b \in TaskTypes}
AgentTypes == {"web2_crawler", ""}
VulnerabilityLists ==
    { <<>>,
      <<[type |-> "xss", detail |-> "/search"], [type |-> "sqli", detail |-> "/login"]>>,
      <<[type |-> "xss", detail |-> "/search"], [type |-> "xss", detail |-> "/login"]>> }

generate_id(data) == [digest16 |-> data]
NoId == generate_id(<<>>)
UnknownJob == generate_id(<<"job", "t1", -1>>)
UnknownTask == generate_id(<<UnknownJob, "crawler">>)

\* KV put, and the insert half of an upsert: the value stored under key k.
Put(store, k, v) == [x \in DOMAIN store \cup {k} |-> IF x = k THEN v ELSE store[x]]

Task(job_id, target_id, task_type) ==
    [task_id |-> generate_id(<<job_id, task_type>>), job_id |-> job_id,
     target_id |-> target_id, task_type |-> task_type, status |-> "queued",
     result_id |-> NoId]

generate_task_hash(task) == <<task.target_id, task.task_type>>

\* is_duplicate answers from seen_hashes alone and adds the hash when it is new.
is_duplicate_never(task, seen) ==
    [duplicate |-> FALSE, seen_hashes |-> seen \cup {generate_task_hash(task)}]

is_duplicate(task, seen) ==
    [duplicate |-> generate_task_hash(task) \in seen,
     seen_hashes |-> seen \cup {generate_task_hash(task)}]

\* The loop of handle_task_queue over task_types.
RECURSIVE QueueTasks(_, _, _, _)
QueueTasks(job_id, target_id, task_types, seen) ==
    IF task_types = <<>>
    THEN [tasks |-> <<>>, deduplicated_count |-> 0, seen_hashes |-> seen]
    ELSE LET task == Task(job_id, target_id, Head(task_types))
             dup == is_duplicate(task, seen)
             rest == QueueTasks(job_id, target_id, Tail(task_types), dup.seen_hashes)
         IN IF ~dup.duplicate
            THEN [rest EXCEPT !.tasks = <<task>> \o @]
            ELSE [rest EXCEPT !.deduplicated_count = @ + 1]

RECURSIVE PutTasks(_, _)
PutTasks(store, tasks) ==
    IF tasks = <<>> THEN store
    ELSE PutTasks(Put(store, Head(tasks).task_id, Head(tasks)), Tail(tasks))

\* INSERT ... ON CONFLICT(job_id) DO UPDATE SET status, total_tasks,
\* completed_tasks, updated_at, task_ids: every modelled column is replaced.
save_job(table, job_id, job_state) == Put(table, job_id, job_state)

scanner_map ==
    {"crawler", "web3_monitor", "static_analysis", "contract_audit", "vulnerability_scan",
     "penetration_test"}
process_job(tasks) == SelectSeq(tasks, LAMBDA t : t.task_type \in scanner_map)

\* BLTWorker.__init__: every worker starts with a deduplicator that has seen nothing.
BLTWorker == [seen_hashes |-> {}]

ErrorReply(op, status) == [op |-> op, status |-> status]

handle_task_queue(worker, target_id, task_types) ==
    IF target_id = "" \/ task_types = <<>>
    THEN /\ reply' = ErrorReply("queue", 400)
         /\ seen_hashes' = worker.seen_hashes
         /\ UNCHANGED <<task_queue, jobs, dispatched>>
    ELSE LET job_id == generate_id(<<"job", target_id, clock>>)
             loop == QueueTasks(job_id, target_id, task_types, worker.seen_hashes)
             job_state ==
                 [target_id |-> target_id, status |-> "queued",
                  total_tasks |-> Len(loop.tasks), completed_tasks |-> 0,
                  task_ids |-> [i \in 1..Len(loop.tasks) |-> loop.tasks[i].task_id]]
         IN /\ seen_hashes' = loop.seen_hashes
            /\ task_queue' = PutTasks(task_queue, loop.tasks)
            /\ jobs' = save_job(jobs, job_id, job_state)
            /\ dispatched' = dispatched \o process_job(loop.tasks)
            /\ reply' = [op |-> "queue", status |-> 200, job_id |-> job_id,
                         tasks_queued |-> Len(loop.tasks),
                         tasks_deduplicated |-> loop.deduplicated_count,
                         task_types |-> task_types]

\* on_fetch for POST api/tasks/queue.
TaskQueueRequest(target_id, task_types) ==
    /\ Len(dispatched) + Len(task_types) <= MaxDispatched
    /\ handle_task_queue(BLTWorker, target_id, task_types)
    /\ UNCHANGED <<vuln_db, progress, ingested, db, clock, call, ret, registered>>

\* INSERT ... ON CONFLICT(vuln_id) DO UPDATE SET data, status.
store_vulnerability(table, vuln_id, vulnerability) ==
    IF vuln_id \in DOMAIN table
    THEN [table EXCEPT ![vuln_id].data = vulnerability, ![vuln_id].status = "open"]
    ELSE Put(table, vuln_id,
             [result_id |-> vulnerability.result_id, task_id |-> vulnerability.task_id,
              type |-> vulnerability.type, data |-> vulnerability, status |-> "open"])

vuln_id_of(task_id, vuln) == generate_id(<<"vuln", task_id, vuln.type>>)

\* The loop of handle_result_ingestion over result.vulnerabilities.
RECURSIVE StoreVulnerabilities(_, _, _, _)
StoreVulnerabilities(table, task_id, result_id, vulnerabilities) ==
    IF vulnerabilities = <<>> THEN table
    ELSE LET vuln == Head(vulnerabilities)
         IN StoreVulnerabilities(
                store_vulnerability(table, vuln_id_of(task_id, vuln),
                    [type |-> vuln.type, detail |-> vuln.detail,
                     result_id |-> result_id, task_id |-> task_id]),
                task_id, result_id, Tail(vulnerabilities))

\* update_job_progress after get_job: the values it is about to bind.
update_job_progress(job_state) ==
    LET completed == job_state.completed_tasks + 1
        total == job_state.total_tasks
    IN [completed |-> completed,
        status |-> IF completed >= total THEN "completed" ELSE "running"]

\* on_fetch for POST api/results/ingest, up to the await that follows get_job
\* in update_job_progress, or to the response when there is no job to update.
ResultIngestionRequest(task_id, agent_type, vulnerabilities) ==
    /\ UNCHANGED <<jobs, seen_hashes, dispatched, db, clock, call, ret, registered>>
    /\ LET result_id == generate_id(<<"result", task_id, agent_type>>)
           response == [op |-> "ingest", status |-> 200, result_id |-> result_id,
                        vulnerabilities_found |-> Len(vulnerabilities)]
       IN IF agent_type = ""
          THEN /\ reply' = ErrorReply("ingest", 400)
               /\ UNCHANGED <<vuln_db, task_queue, progress, ingested>>
          ELSE /\ vuln_db' = StoreVulnerabilities(vuln_db, task_id, result_id, vulnerabilities)
               /\ ingested' = [task_id |-> task_id, vulnerabilities |-> vulnerabilities,
                               vuln_ids |-> [i \in 1..Len(vulnerabilities) |->
                                                vuln_id_of(task_id, vulnerabilities[i])]]
               /\ IF task_id \in DOMAIN task_queue
                  THEN LET job_id == task_queue[task_id].job_id
                       IN /\ task_queue' = [task_queue EXCEPT ![task_id].status = "completed",
                                                              ![task_id].result_id = result_id]
                          /\ IF job_id \in DOMAIN jobs
                             THEN /\ Len(progress) < MaxInflight
                                  /\ jobs[job_id].completed_tasks < MaxCompleted
                                  /\ progress' = Append(progress,
                                         [job_id |-> job_id, task_id |-> task_id,
                                          bind |-> update_job_progress(jobs[job_id]),
                                          response |-> response])
                                  /\ UNCHANGED reply
                             ELSE /\ reply' = response
                                  /\ UNCHANGED progress
                  ELSE /\ reply' = response
                       /\ UNCHANGED <<task_queue, progress>>

\* The rest of a result ingestion: UPDATE jobs SET completed_tasks, status
\* WHERE job_id, then the response.
ProgressWrite(i) ==
    LET p == progress[i]
    IN /\ jobs' = IF p.job_id \in DOMAIN jobs
                  THEN [jobs EXCEPT ![p.job_id].completed_tasks = p.bind.completed,
                                    ![p.job_id].status = p.bind.status]
                  ELSE jobs
       /\ progress' = [k \in 1..(Len(progress) - 1) |->
                          IF k < i THEN progress[k] ELSE progress[k + 1]]
       /\ reply' = p.response
       /\ UNCHANGED <<task_queue, vuln_db, seen_hashes, dispatched, ingested,
                      db, clock, call, ret, registered>>

\* int((completed / total * 100)): for the totals and counts reached here the
\* float quotient truncates to the integer quotient.
JobProgress(job_state) ==
    IF job_state.total_tasks > 0
    THEN (job_state.completed_tasks * 100) \div job_state.total_tasks
    ELSE 0

\* on_fetch for GET api/jobs/status.
JobStatusRequest(job_id) ==
    /\ reply' = IF job_id \notin DOMAIN jobs
                THEN ErrorReply("status", 404)
                ELSE [op |-> "status", status |-> 200, job_id |-> job_id,
                      job_status |-> jobs[job_id].status,
                      total |-> jobs[job_id].total_tasks,
                      completed |-> jobs[job_id].completed_tasks,
                      progress |-> JobProgress(jobs[job_id])]
    /\ UNCHANGED <<task_queue, jobs, vuln_db, seen_hashes, dispatched, progress, ingested,
                   db, clock, call, ret, registered>>

\* Time passes between two readings of datetime.utcnow() by the worker.
Later ==
    /\ clock < MaxSecond
    /\ clock' = clock + 1
    /\ UNCHANGED <<db, call, ret, registered>>
    /\ UNCHANGED workVars

WorkInit == WorkIdle /\ RegInit
WorkNext ==
    \/ \E t \in Targets, tys \in TaskTypeLists : TaskQueueRequest(t, tys)
    \/ \E id \in DOMAIN task_queue \cup {UnknownTask}, a \in AgentTypes :
           ResultIngestionRequest(id, a, <<>>)
    \/ \E i \in 1..Len(progress) : ProgressWrite(i)
    \/ \E j \in DOMAIN jobs \cup {UnknownJob} : JobStatusRequest(j)
    \/ Later

InitWorker == WorkInit /\ JwkIdle /\ SevIdle /\ SubIdle /\ PayIdle /\ GpgIdle
NextWorker ==
    WorkNext /\ UNCHANGED jwkVars /\ UNCHANGED sevVars /\ UNCHANGED subVars
             /\ UNCHANGED payVars /\ UNCHANGED gpgVars
SpecWorker == InitWorker /\ [][NextWorker]_vars


\* SpecIngest: results carrying vulnerabilities, ingested for the tasks of
\* single-task jobs and for a task the queue does not hold.
IngestNext ==
    \/ \E t \in Targets : TaskQueueRequest(t, <<"crawler">>)
    \/ \E id \in DOMAIN task_queue \cup {UnknownTask}, vs \in VulnerabilityLists :
           ResultIngestionRequest(id, "web2_crawler", vs)
    \/ \E i \in 1..Len(progress) : ProgressWrite(i)
    \/ Later

InitIngest == WorkInit /\ JwkIdle /\ SevIdle /\ SubIdle /\ PayIdle /\ GpgIdle
NextIngest ==
    IngestNext /\ UNCHANGED jwkVars /\ UNCHANGED sevVars /\ UNCHANGED subVars
               /\ UNCHANGED payVars /\ UNCHANGED gpgVars
SpecIngest == InitIngest /\ [][NextIngest]_vars

\* C24: whatever task-queue requests on_fetch has handled, the task queue
\* holds at most one task per (target_id, task_type) pair, and no pair was
\* handed to a scanner twice.
C24_OneTaskPerPair ==
    /\ \A a, b \in DOMAIN task_queue :
           a # b => generate_task_hash(task_queue[a]) # generate_task_hash(task_queue[b])
    /\ \A i, k \in 1..Len(dispatched) :
           i # k => generate_task_hash(dispatched[i]) # generate_task_hash(dispatched[k])

\* C25: no job has more completed tasks than tasks, a result ingested twice
\* for one task included, and no job-status response reports more than 100.
C25_CompletedWithinTotal ==
    /\ \A j \in DOMAIN jobs :
           /\ jobs[j].completed_tasks <= jobs[j].total_tasks
           /\ JobProgress(jobs[j]) <= 100
    /\ (reply.op = "status" /\ reply.status = 200) => reply.progress <= 100

CompletedTasksOf(j) ==
    {i \in 1..Len(jobs[j].task_ids) :
        /\ jobs[j].task_ids[i] \in DOMAIN task_queue
        /\ task_queue[jobs[j].task_ids[i]].status = "completed"}

\* C26: once no update_job_progress call is in flight for a job, its
\* completed_tasks counts at least every task of the job whose result was
\* ingested, and the job is 'completed' when all of its tasks were.
C26_NoCompletionLost ==
    \A j \in DOMAIN jobs :
        (\A i \in 1..Len(progress) : progress[i].job_id # j) =>
            /\ jobs[j].completed_tasks >= Cardinality(CompletedTasksOf(j))
            /\ Cardinality(CompletedTasksOf(j)) = Len(jobs[j].task_ids) =>
                   jobs[j].status = "completed"

\* C27: a stored job has status 'completed' exactly when its
\* completed_tasks >= total_tasks.
C27_StatusMatchesCount ==
    \A j \in DOMAIN jobs :
        (jobs[j].status = "completed") <=> (jobs[j].completed_tasks >= jobs[j].total_tasks)

\* C28: the last result ingested left one record per vulnerability it
\* reported: the ids bound for them are pairwise distinct, so as many as
\* vulnerabilities_found, and each record holds the vulnerability it was
\* stored for.
C28_OneRecordPerVulnerability ==
    LET n == Len(ingested.vulnerabilities)
    IN /\ Cardinality({ingested.vuln_ids[i] : i \in 1..n}) = n
       /\ \A i \in 1..n :
              /\ ingested.vuln_ids[i] \in DOMAIN vuln_db
              /\ vuln_db[ingested.vuln_ids[i]].data.detail = ingested.vulnerabilities[i].detail

====
